---- MODULE Spec2Model ----
(***************************************************************************)
(* The audio dump writer (StreamDumper) and its coordinator                *)
(* (AudioDumpManager) of src/android/hal, as a state machine.              *)
(*                                                                         *)
(* Bytes are numbered: the k-th byte a caller ever offers to a writer is   *)
(* the number k, so that loss, duplication and reordering are visible in   *)
(* the contents of the files.  The code never looks at the bytes.          *)
(*                                                                         *)
(* The three sizes of StreamDumper.h are scaled down (256 KiB, 10 MiB and  *)
(* 100 MiB in the source); the scaling keeps what the code relies on:      *)
(* BUFFER_SIZE < FLUSH_THRESHOLD < MAX_FILE_SIZE, and BUFFER_SIZE divides  *)
(* both FLUSH_THRESHOLD and MAX_FILE_SIZE.                                 *)
(***************************************************************************)
EXTENDS Integers, Sequences, FiniteSets, TLC

BUFFER_SIZE == 2
FLUSH_THRESHOLD == 4
MAX_FILE_SIZE == 10

\* Bound: the number of bytes the caller offers to one writer in one run.
MaxBytes == 12

\* The StreamDumper objects a run may create (each identity is used once).
Writers == {1, 2}

StreamTypes == {"STREAM_OUT", "STREAM_IN"}

\* mCurrentFilePath.clear(): the empty path.
NoPath == <<>>

VARIABLES
    dumper,     \* [Writers -> StreamDumper object]; life is none/live/destroyed
    files,      \* the dump directory: file name |-> content (a sequence of bytes)
    dirState,   \* the dump directory path: "absent", "dir" or "notdir"
    mgr,        \* the AudioDumpManager singleton
    queueFile,  \* the lines of the .queue index file
    logcat,     \* the AUDIO_DUMP_READY lines, in emission order
    call,       \* [Writers -> the WriteData call in flight on the audio thread]
    hist,       \* [Writers -> history of the calls made on the writer]
    ghost,      \* history of the file system calls
    env,        \* what the run allows: I/O faults, racing threads, which writers
    thread,     \* [Threads -> where the thread is in the call it is making]
    mutex       \* [Mutexes -> the thread that holds it]

vars ==
    <<dumper, files, dirState, mgr, queueFile, logcat, call, hist, ghost, env, thread, mutex>>

Min(a, b) == IF a < b THEN a ELSE b

\* The bytes from..to of the caller's stream.
Span(from, to) == [i \in 1..(to - from + 1) |-> from + i - 1]

(***************************************************************************)
(* The outcomes of the fallible system calls made during one handler:      *)
(* open (ofstream::open), write (ofstream::write), flush (ofstream::flush), *)
(* rename (rename(2)), append (opening the .queue file), mkdir (mkdir(2)).  *)
(* TRUE is success.                                                        *)
(***************************************************************************)
IoAllOk ==
    [open |-> TRUE, write |-> TRUE, flush |-> TRUE, rename |-> TRUE, append |-> TRUE,
     mkdir |-> TRUE]

\* The outcomes a handler can meet: with faults, each call named in calls (the
\* system calls the handler can make) succeeds or fails.
IoOutcomes(faults, calls) ==
    IF faults
    THEN {io \in [open : BOOLEAN, write : BOOLEAN, flush : BOOLEAN, rename : BOOLEAN,
                  append : BOOLEAN, mkdir : BOOLEAN] :
             \A c \in {"open", "write", "flush", "rename", "append", "mkdir"} \ calls : io[c]}
    ELSE {IoAllOk}

IoWrite == {"open", "write", "flush", "rename", "append"}
IoClose == {"write", "rename", "append"}
IoCreate == {"mkdir", "open"}

(***************************************************************************)
(* A handler runs on a "world": the StreamDumper it is called on (d), the  *)
(* files, the manager, the index file, the log and the file system         *)
(* history, with the boolean (ok) or ssize_t (ret) result of the last      *)
(* function that returned one.                                             *)
(***************************************************************************)
World(w) ==
    [d |-> dumper[w], files |-> files, dirState |-> dirState, mgr |-> mgr,
     queueFile |-> queueFile, logcat |-> logcat, ghost |-> ghost, ok |-> TRUE, ret |-> 0]

\* ---------------------------------------------------------------- files

\* std::ofstream::open(path, binary | trunc): fails on a stream that is already
\* open or when the file cannot be created; clears the error state on success.
StreamOpen(s, path, openOk) ==
    IF openOk /\ ~s.d.mFile.open
    THEN [s EXCEPT !.d.mFile = [open |-> TRUE, path |-> path, good |-> TRUE],
                   !.files = (path :> <<>>) @@ s.files,
                   !.ghost.opened = @ \cup {path},
                   !.ghost.reopened = @ \/ path \in s.ghost.opened,
                   !.ok = TRUE]
    ELSE [s EXCEPT !.d.mFile.good = FALSE,
                   !.ghost.opened = @ \cup {path},
                   !.ghost.reopened = @ \/ path \in s.ghost.opened,
                   !.ghost.openFailed = @ \cup {path},
                   !.ok = FALSE]

\* std::ofstream::write: appends to the file the handle is on; on a stream that
\* is closed or already in error, or when the device fails, nothing is written
\* and the stream is (stays) in error.  (A failing write that leaves a part of
\* the bytes in the file is not modelled.)  ghost.aborted collects the files
\* of which a write or a flush failed.
StreamWrite(s, bytes, writeOk) ==
    IF s.d.mFile.open /\ s.d.mFile.good /\ writeOk /\ s.d.mFile.path \in DOMAIN s.files
    THEN [s EXCEPT !.files[s.d.mFile.path] = @ \o bytes,
                   !.ghost.wroteFinal = @ \/ (s.d.mFile.path[6] = "pcm")]
    ELSE [s EXCEPT !.d.mFile.good = FALSE,
                   !.ghost.aborted = IF s.d.mFile.open THEN @ \cup {s.d.mFile.path} ELSE @]

\* std::ofstream::flush: a failure leaves the stream in error.
StreamFlush(s, flushOk) ==
    IF s.d.mFile.open /\ s.d.mFile.good /\ flushOk
    THEN s
    ELSE [s EXCEPT !.d.mFile.good = FALSE,
                   !.ghost.aborted = IF s.d.mFile.open THEN @ \cup {s.d.mFile.path} ELSE @]

\* std::ofstream::close.
StreamClose(s) == [s EXCEPT !.d.mFile.open = FALSE]

\* rename(2): fails when the environment makes it fail or the source is gone.
RenameSucceeds(s, from, renameOk) == renameOk /\ from \in DOMAIN s.files

\* rename(2), when it succeeds: the file carries the new name (replacing a file
\* of that name); a handle open on it stays on it.
SysRename(s, from, to) ==
    [s EXCEPT !.files = [n \in ((DOMAIN s.files) \ {from}) \cup {to} |->
                            IF n = to THEN s.files[from] ELSE s.files[n]],
              !.d.mFile.path = IF s.d.mFile.open /\ @ = from THEN to ELSE @,
              !.ghost.renamedOpen = @ \/ (s.d.mFile.open /\ s.d.mFile.path = from),
              !.ghost.renamed = Append(@, to),
              !.ghost.finalSnap = IF to \in DOMAIN @ THEN @ ELSE (to :> s.files[from]) @@ @]

\* unlink(2); the code does not look at its result and it is taken to succeed.
SysUnlink(s, path) ==
    [s EXCEPT !.files = [n \in (DOMAIN s.files) \ {path} |-> s.files[n]]]

\* ---------------------------------------------------------------- AudioDumpManager

AppendToQueueFile(s, filename, appendOk) ==
    IF ~appendOk
    THEN [s EXCEPT !.ok = FALSE]
    ELSE [s EXCEPT !.queueFile = Append(@, filename), !.ok = TRUE]

\* OnDumpFileCompleted that returns when the append to the index file failed.
OnDumpFileCompleted_StopsOnFailure(s, filename, io) ==
    LET s1 == [s EXCEPT !.mgr.mCompletedFiles = Append(@, filename)]
        s2 == AppendToQueueFile(s1, filename, io.append)
    IN  IF s2.ok THEN [s2 EXCEPT !.logcat = Append(@, filename)] ELSE s2

OnDumpFileCompleted(s, filename, io) ==
    LET s1 == [s EXCEPT !.mgr.mCompletedFiles = Append(@, filename)]
        s2 == AppendToQueueFile(s1, filename, io.append)
    IN  [s2 EXCEPT !.logcat = Append(@, filename)]

\* ---------------------------------------------------------------- StreamDumper

GetStreamTypeString(d) == IF d.mType = "STREAM_OUT" THEN "streamout" ELSE "streamin"

\* GenerateFilename that leaves the base counter out of the name.
GenerateFilename_NoCounter(d, withTmp) ==
    <<"audio", GetStreamTypeString(d), d.mTimestamp, 0, d.mFileIndex,
      IF withTmp THEN "pcm.tmp" ELSE "pcm">>

\* snprintf("audio_%s_%s_%u_%u.%s", ...): the fields of the name, in order.
GenerateFilename(d, withTmp) ==
    <<"audio", GetStreamTypeString(d), d.mTimestamp, d.mBaseCounter, d.mFileIndex,
      IF withTmp THEN "pcm.tmp" ELSE "pcm">>

\* OpenNewFile that moves to the next index before it knows that the file is open.
OpenNewFile_CountsFailed(s, io) ==
    LET s1 == [s EXCEPT !.d.mCurrentFilename = GenerateFilename(s.d, FALSE),
                        !.d.mCurrentFilePath = GenerateFilename(s.d, TRUE),
                        !.d.mFileIndex = @ + 1]
        s2 == StreamOpen(s1, s1.d.mCurrentFilePath, io.open)
    IN  IF ~s2.d.mFile.open
        THEN [s2 EXCEPT !.ok = FALSE]
        ELSE [s2 EXCEPT !.d.mCurrentFileSize = 0,
                        !.d.mBytesSinceFlush = 0,
                        !.d.mBufferOffset = 0,
                        !.d.mFileCount = @ + 1,
                        !.ok = TRUE]

\* OpenNewFile that leaves mFileIndex as it is.
OpenNewFile_KeepsIndex(s, io) ==
    LET s1 == [s EXCEPT !.d.mCurrentFilename = GenerateFilename(s.d, FALSE),
                        !.d.mCurrentFilePath = GenerateFilename(s.d, TRUE)]
        s2 == StreamOpen(s1, s1.d.mCurrentFilePath, io.open)
    IN  IF ~s2.d.mFile.open
        THEN [s2 EXCEPT !.ok = FALSE]
        ELSE [s2 EXCEPT !.d.mCurrentFileSize = 0,
                        !.d.mBytesSinceFlush = 0,
                        !.d.mBufferOffset = 0,
                        !.d.mFileCount = @ + 1,
                        !.ok = TRUE]

\* ghost.discarded: the reset of mBufferOffset has dropped bytes of the buffer.
OpenNewFile(s, io) ==
    LET s1 == [s EXCEPT !.d.mCurrentFilename = GenerateFilename(s.d, FALSE),
                        !.d.mCurrentFilePath = GenerateFilename(s.d, TRUE)]
        s2 == StreamOpen(s1, s1.d.mCurrentFilePath, io.open)
    IN  IF ~s2.d.mFile.open
        THEN [s2 EXCEPT !.ok = FALSE]
        ELSE [s2 EXCEPT !.d.mCurrentFileSize = 0,
                        !.d.mBytesSinceFlush = 0,
                        !.d.mBufferOffset = 0,
                        !.d.mFileCount = @ + 1,
                        !.d.mFileIndex = @ + 1,
                        !.ghost.discarded = @ \/ s.d.mBufferOffset > 0,
                        !.ok = TRUE]

\* CloseCurrentFile that notifies the manager whatever rename returned.
CloseCurrentFile_NotifiesAlways(s, complete, io) ==
    IF ~s.d.mFile.open
    THEN s
    ELSE
        LET s1 == StreamClose(s)
            s2 == IF complete /\ s1.d.mCurrentFileSize > 0
                  THEN OnDumpFileCompleted(
                           IF RenameSucceeds(s1, s1.d.mCurrentFilePath, io.rename)
                           THEN SysRename(s1, s1.d.mCurrentFilePath, s1.d.mCurrentFilename)
                           ELSE [s1 EXCEPT !.ghost.renameFailed =
                                                  @ \cup {s1.d.mCurrentFilePath}],
                           s1.d.mCurrentFilename, io)
                  ELSE SysUnlink(s1, s1.d.mCurrentFilePath)
        IN  [s2 EXCEPT !.d.mCurrentFilePath = NoPath]

\* CloseCurrentFile without the test on mCurrentFileSize.
CloseCurrentFile_PromotesEmpty(s, complete, io) ==
    IF ~s.d.mFile.open
    THEN s
    ELSE
        LET s1 == StreamClose(s)
            s2 == IF complete
                  THEN IF RenameSucceeds(s1, s1.d.mCurrentFilePath, io.rename)
                       THEN OnDumpFileCompleted(
                                SysRename(s1, s1.d.mCurrentFilePath, s1.d.mCurrentFilename),
                                s1.d.mCurrentFilename, io)
                       ELSE [s1 EXCEPT !.ghost.renameFailed = @ \cup {s1.d.mCurrentFilePath}]
                  ELSE SysUnlink(s1, s1.d.mCurrentFilePath)
        IN  [s2 EXCEPT !.d.mCurrentFilePath = NoPath]

\* CloseCurrentFile that removes the temp file when the rename fails.
CloseCurrentFile_UnlinksOnFailure(s, complete, io) ==
    IF ~s.d.mFile.open
    THEN s
    ELSE
        LET s1 == StreamClose(s)
            s2 == IF complete /\ s1.d.mCurrentFileSize > 0
                  THEN IF RenameSucceeds(s1, s1.d.mCurrentFilePath, io.rename)
                       THEN OnDumpFileCompleted(
                                SysRename(s1, s1.d.mCurrentFilePath, s1.d.mCurrentFilename),
                                s1.d.mCurrentFilename, io)
                       ELSE SysUnlink([s1 EXCEPT !.ghost.renameFailed =
                                                     @ \cup {s1.d.mCurrentFilePath}],
                                      s1.d.mCurrentFilePath)
                  ELSE SysUnlink(s1, s1.d.mCurrentFilePath)
        IN  [s2 EXCEPT !.d.mCurrentFilePath = NoPath]

CloseCurrentFile(s, complete, io) ==
    IF ~s.d.mFile.open
    THEN s
    ELSE
        LET s1 == StreamClose(s)
            s2 == IF complete /\ s1.d.mCurrentFileSize > 0
                  THEN IF RenameSucceeds(s1, s1.d.mCurrentFilePath, io.rename)
                       THEN OnDumpFileCompleted(
                                SysRename(s1, s1.d.mCurrentFilePath, s1.d.mCurrentFilename),
                                s1.d.mCurrentFilename, io)
                       ELSE [s1 EXCEPT !.ghost.renameFailed = @ \cup {s1.d.mCurrentFilePath}]
                  ELSE SysUnlink(s1, s1.d.mCurrentFilePath)
        IN  [s2 EXCEPT !.d.mCurrentFilePath = NoPath]

\* FlushBuffer that does not count the bytes in mTotalBytesWritten.
FlushBuffer_NoTotal(s, io) ==
    IF s.d.mBufferOffset = 0
    THEN [s EXCEPT !.ok = TRUE]
    ELSE IF ~s.d.mFile.open
    THEN [s EXCEPT !.ok = FALSE]
    ELSE
        LET s1 == StreamWrite(s, SubSeq(s.d.mBuffer, 1, s.d.mBufferOffset), io.write)
        IN  IF ~s1.d.mFile.good
            THEN [s1 EXCEPT !.ghost.flushFailed = @ \cup {s.d.mFile.path}, !.ok = FALSE]
            ELSE [s1 EXCEPT !.d.mCurrentFileSize = @ + s.d.mBufferOffset,
                            !.d.mBytesSinceFlush = @ + s.d.mBufferOffset,
                            !.d.mBufferOffset = 0,
                            !.ok = TRUE]

\* FlushBuffer that does not count the bytes in mCurrentFileSize.
FlushBuffer_NoFileSize(s, io) ==
    IF s.d.mBufferOffset = 0
    THEN [s EXCEPT !.ok = TRUE]
    ELSE IF ~s.d.mFile.open
    THEN [s EXCEPT !.ok = FALSE]
    ELSE
        LET s1 == StreamWrite(s, SubSeq(s.d.mBuffer, 1, s.d.mBufferOffset), io.write)
        IN  IF ~s1.d.mFile.good
            THEN [s1 EXCEPT !.ghost.flushFailed = @ \cup {s.d.mFile.path}, !.ok = FALSE]
            ELSE [s1 EXCEPT !.d.mTotalBytesWritten = @ + s.d.mBufferOffset,
                            !.d.mBytesSinceFlush = @ + s.d.mBufferOffset,
                            !.d.mBufferOffset = 0,
                            !.ok = TRUE]

\* FlushBuffer that reports success when the write failed.
FlushBuffer_HidesFailure(s, io) ==
    IF s.d.mBufferOffset = 0
    THEN [s EXCEPT !.ok = TRUE]
    ELSE IF ~s.d.mFile.open
    THEN [s EXCEPT !.ok = FALSE]
    ELSE
        LET s1 == StreamWrite(s, SubSeq(s.d.mBuffer, 1, s.d.mBufferOffset), io.write)
        IN  IF ~s1.d.mFile.good
            THEN [s1 EXCEPT !.ghost.flushFailed = @ \cup {s.d.mFile.path},
                            !.d.mBufferOffset = 0,
                            !.ok = TRUE]
            ELSE [s1 EXCEPT !.d.mCurrentFileSize = @ + s.d.mBufferOffset,
                            !.d.mTotalBytesWritten = @ + s.d.mBufferOffset,
                            !.d.mBytesSinceFlush = @ + s.d.mBufferOffset,
                            !.d.mBufferOffset = 0,
                            !.ok = TRUE]

\* ghost.sinceFlush is the largest value mBytesSinceFlush has had.
FlushBuffer(s, io) ==
    IF s.d.mBufferOffset = 0
    THEN [s EXCEPT !.ok = TRUE]
    ELSE IF ~s.d.mFile.open
    THEN [s EXCEPT !.ok = FALSE]
    ELSE
        LET s1 == StreamWrite(s, SubSeq(s.d.mBuffer, 1, s.d.mBufferOffset), io.write)
        IN  IF ~s1.d.mFile.good
            THEN [s1 EXCEPT !.ghost.flushFailed = @ \cup {s.d.mFile.path}, !.ok = FALSE]
            ELSE [s1 EXCEPT !.d.mCurrentFileSize = @ + s.d.mBufferOffset,
                            !.d.mTotalBytesWritten = @ + s.d.mBufferOffset,
                            !.d.mBytesSinceFlush = @ + s.d.mBufferOffset,
                            !.d.mBufferOffset = 0,
                            !.ghost.sinceFlush =
                                IF s.d.mBytesSinceFlush + s.d.mBufferOffset > @
                                THEN s.d.mBytesSinceFlush + s.d.mBufferOffset ELSE @,
                            !.ok = TRUE]

\* memcpy(mBuffer.data() + mBufferOffset, data, n).
CopyToBuffer(d, data, n) ==
    [d EXCEPT !.mBuffer = [i \in 1..BUFFER_SIZE |->
                              IF d.mBufferOffset < i /\ i <= d.mBufferOffset + n
                              THEN data[i - d.mBufferOffset] ELSE d.mBuffer[i]],
              !.mBufferOffset = @ + n]

\* The rotation test that fires one buffer before the limit.
NeedsRotation_Early(d) == d.mCurrentFileSize + BUFFER_SIZE >= MAX_FILE_SIZE

\* The rotation test with > for >=.
NeedsRotation_Strict(d) == d.mCurrentFileSize > MAX_FILE_SIZE

\* The rotation test at the head of the loop of WriteData.
NeedsRotation(d) == d.mCurrentFileSize >= MAX_FILE_SIZE

\* The buffer-full test of WriteData.
BufferFull(d) == d.mBufferOffset >= BUFFER_SIZE

\* The periodic flush test with > for >=.
NeedsPeriodicFlush_Strict(d) == d.mBytesSinceFlush > FLUSH_THRESHOLD

\* The periodic flush test of WriteData.
NeedsPeriodicFlush(d) == d.mBytesSinceFlush >= FLUSH_THRESHOLD

\* The loop of WriteData with the buffer-full test before the copy: a full buffer
\* is written out only when the next bytes arrive.
RECURSIVE WriteLoop_FlushesLate(_, _, _, _)
WriteLoop_FlushesLate(s, data, totalWritten, io) ==
    IF Len(data) = 0
    THEN [s EXCEPT !.ret = totalWritten]
    ELSE
        LET s1 == IF NeedsRotation(s.d)
                  THEN OpenNewFile(CloseCurrentFile(s, TRUE, io), io)
                  ELSE [s EXCEPT !.ok = TRUE]
        IN  IF ~s1.ok
            THEN [s1 EXCEPT !.d.mIsValid = FALSE, !.ret = -1]
            ELSE
                LET s2 == IF BufferFull(s1.d)
                          THEN FlushBuffer(s1, io)
                          ELSE [s1 EXCEPT !.ok = TRUE]
                IN  IF ~s2.ok
                    THEN [s2 EXCEPT !.d.mIsValid = FALSE, !.ret = -1]
                    ELSE
                        LET spaceInBuffer == BUFFER_SIZE - s2.d.mBufferOffset
                            bytesToCopy == Min(Len(data), spaceInBuffer)
                            s3 == [s2 EXCEPT !.d = CopyToBuffer(s2.d, data, bytesToCopy)]
                            s4 == IF NeedsPeriodicFlush(s3.d)
                                  THEN [StreamFlush(s3, io.flush)
                                          EXCEPT !.d.mBytesSinceFlush = 0]
                                  ELSE s3
                        IN  WriteLoop_FlushesLate(s4, SubSeq(data, bytesToCopy + 1, Len(data)),
                                                  totalWritten + bytesToCopy, io)

\* The while loop of WriteData, run under mMutex; data is what remains of the
\* caller's span, totalWritten what has been copied so far.
RECURSIVE WriteLoop(_, _, _, _)
WriteLoop(s, data, totalWritten, io) ==
    IF Len(data) = 0
    THEN [s EXCEPT !.ret = totalWritten]
    ELSE
        LET s1 == IF NeedsRotation(s.d)
                  THEN OpenNewFile(CloseCurrentFile(s, TRUE, io), io)
                  ELSE [s EXCEPT !.ok = TRUE]
        IN  IF ~s1.ok
            THEN [s1 EXCEPT !.d.mIsValid = FALSE, !.ret = -1]
            ELSE
                LET spaceInBuffer == BUFFER_SIZE - s1.d.mBufferOffset
                    bytesToCopy == Min(Len(data), spaceInBuffer)
                    s2 == [s1 EXCEPT !.d = CopyToBuffer(s1.d, data, bytesToCopy)]
                    s3 == IF BufferFull(s2.d)
                          THEN FlushBuffer(s2, io)
                          ELSE [s2 EXCEPT !.ok = TRUE]
                IN  IF ~s3.ok
                    THEN [s3 EXCEPT !.d.mIsValid = FALSE, !.ret = -1]
                    ELSE
                        LET s4 == IF NeedsPeriodicFlush(s3.d)
                                  THEN [StreamFlush(s3, io.flush)
                                          EXCEPT !.d.mBytesSinceFlush = 0]
                                  ELSE s3
                        IN  WriteLoop(s4, SubSeq(data, bytesToCopy + 1, Len(data)),
                                      totalWritten + bytesToCopy, io)

\* The test before the lock without its mIsValid part.
WriteDataAdmits_IgnoresValid(d, size) == ~(size = 0)

\* The test WriteData makes before it takes mMutex; the callers never pass a
\* null buffer.  mIsValid is read without the lock: the read sees the value of
\* the moment, so a ForceClose that runs after it is not seen.
WriteDataAdmits(d, size) == ~(~d.mIsValid \/ size = 0)

\* One whole call of WriteData with nothing running in between.
WriteData(s, data, io) ==
    IF ~WriteDataAdmits(s.d, Len(data))
    THEN [s EXCEPT !.ret = -1]
    ELSE WriteLoop(s, data, 0, io)

\* ForceClose that closes the file without writing the rest of the buffer.
ForceClose_DropsBuffer(s, io) ==
    LET s1 == IF s.d.mFile.open
              THEN CloseCurrentFile([s EXCEPT !.d.mBufferOffset = 0], TRUE, io)
              ELSE s
    IN  [s1 EXCEPT !.d.mIsValid = FALSE]

\* ForceClose that does not count the rest of the buffer in mTotalBytesWritten.
ForceClose_NoTotal(s, io) ==
    LET s1 == IF s.d.mFile.open
              THEN LET s2 == IF s.d.mBufferOffset > 0
                             THEN [StreamWrite(s, SubSeq(s.d.mBuffer, 1, s.d.mBufferOffset),
                                               io.write)
                                     EXCEPT !.d.mCurrentFileSize = @ + s.d.mBufferOffset,
                                            !.d.mBufferOffset = 0]
                             ELSE s
                   IN  CloseCurrentFile(s2, TRUE, io)
              ELSE s
    IN  [s1 EXCEPT !.d.mIsValid = FALSE]

\* ForceClose that rotates: after closing the file it opens the next one, as
\* the size limit code of WriteData does.
ForceClose_Rotates(s, io) ==
    LET s1 == IF s.d.mBufferOffset > 0
              THEN [StreamWrite(s, SubSeq(s.d.mBuffer, 1, s.d.mBufferOffset), io.write)
                      EXCEPT !.d.mCurrentFileSize = @ + s.d.mBufferOffset,
                             !.d.mTotalBytesWritten = @ + s.d.mBufferOffset,
                             !.d.mBufferOffset = 0]
              ELSE s
        s2 == OpenNewFile(CloseCurrentFile(s1, TRUE, io), [io EXCEPT !.open = TRUE])
    IN  [s2 EXCEPT !.d.mIsValid = FALSE]

ForceClose(s, io) ==
    LET s1 == IF s.d.mFile.open
              THEN LET s2 == IF s.d.mBufferOffset > 0
                             THEN [StreamWrite(s, SubSeq(s.d.mBuffer, 1, s.d.mBufferOffset),
                                               io.write)
                                     EXCEPT !.d.mCurrentFileSize = @ + s.d.mBufferOffset,
                                            !.d.mTotalBytesWritten = @ + s.d.mBufferOffset,
                                            !.d.mBufferOffset = 0]
                             ELSE s
                   IN  CloseCurrentFile(s2, TRUE, io)
              ELSE s
    IN  [s1 EXCEPT !.d.mIsValid = FALSE]

\* A StreamDumper that does not exist (yet).
NoDumper ==
    [life |-> "none", mType |-> "STREAM_OUT", mTimestamp |-> "", mBaseCounter |-> 0,
     mFileIndex |-> 0, mFile |-> [open |-> FALSE, path |-> NoPath, good |-> TRUE],
     mCurrentFilePath |-> NoPath, mCurrentFilename |-> NoPath,
     mBuffer |-> [i \in 1..BUFFER_SIZE |-> 0], mBufferOffset |-> 0,
     mCurrentFileSize |-> 0, mBytesSinceFlush |-> 0, mTotalBytesWritten |-> 0,
     mFileCount |-> 0, mIsValid |-> FALSE]

\* The constructor.
StreamDumper(s, type, timestamp, baseCounter, io) ==
    LET s1 == [s EXCEPT !.d = [NoDumper EXCEPT !.life = "live", !.mType = type,
                                                !.mTimestamp = timestamp,
                                                !.mBaseCounter = baseCounter]]
        s2 == OpenNewFile(s1, io)
    IN  IF s2.ok THEN [s2 EXCEPT !.d.mIsValid = TRUE] ELSE s2

\* A destructor that only lets the members go (the ofstream closes its file).
DestroyStreamDumper_JustCloses(s, io) == [StreamClose(s) EXCEPT !.d.life = "destroyed"]

\* The destructor.
DestroyStreamDumper(s, io) == [ForceClose(s, io) EXCEPT !.d.life = "destroyed"]

\* ---------------------------------------------------------------- AudioDumpManager

\* stat and mkdir on the dump directory.
EnsureDumpDirectory(s, io) ==
    IF s.dirState # "absent"
    THEN [s EXCEPT !.ok = (s.dirState = "dir")]
    ELSE IF ~io.mkdir
    THEN [s EXCEPT !.ok = FALSE]
    ELSE [s EXCEPT !.dirState = "dir", !.ok = TRUE]

\* Initialize that sets mInitialized before it looks at the directory.
Initialize_MarksFirst(s, io) ==
    IF s.mgr.mInitialized
    THEN [s EXCEPT !.ok = TRUE]
    ELSE EnsureDumpDirectory([s EXCEPT !.mgr.mInitialized = TRUE], io)

Initialize(s, io) ==
    IF s.mgr.mInitialized
    THEN [s EXCEPT !.ok = TRUE]
    ELSE LET s1 == EnsureDumpDirectory(s, io)
         IN  IF ~s1.ok THEN s1 ELSE [s1 EXCEPT !.mgr.mInitialized = TRUE, !.ok = TRUE]

\* Shutdown that also starts the session counter again from zero.
Shutdown_ResetsCounter(s) ==
    IF ~s.mgr.mInitialized
    THEN s
    ELSE [s EXCEPT !.mgr.mCompletedFiles = <<>>, !.mgr.mInitialized = FALSE,
                   !.mgr.mFileCounter = 0, !.ghost.cleared = Len(s.logcat)]

\* Shutdown that leaves the queue of completed files as it is.
Shutdown_KeepsQueue(s) ==
    IF ~s.mgr.mInitialized
    THEN s
    ELSE [s EXCEPT !.mgr.mInitialized = FALSE, !.ghost.cleared = Len(s.logcat)]

\* ghost.cleared is the number of files that had been reported when the queue
\* was last emptied.
Shutdown(s) ==
    IF ~s.mgr.mInitialized
    THEN s
    ELSE [s EXCEPT !.mgr.mCompletedFiles = <<>>, !.mgr.mInitialized = FALSE,
                   !.ghost.cleared = Len(s.logcat)]

\* mFileCounter.fetch_add(1): the value before the addition is in ret.
\* (mFileCounter is a uint32_t; the runs here stay far below 2^32 calls.)
GetNextCounter(s) ==
    [s EXCEPT !.ret = s.mgr.mFileCounter,
              !.mgr.mFileCounter = @ + 1,
              !.ghost.counters = Append(@, s.mgr.mFileCounter)]

\* strftime("%Y%m%d_%H%M%S") of the time of the call.
Timestamp == "20240101_000000"

\* CreateStreamDumper that initializes the manager before it reads the switch.
CreateStreamDumper_InitializesFirst(s, type, enabled, io) ==
    LET s1 == IF ~s.mgr.mInitialized THEN Initialize(s, io) ELSE [s EXCEPT !.ok = TRUE]
    IN  IF ~enabled \/ ~s1.ok
        THEN [s1 EXCEPT !.ok = FALSE]
        ELSE LET s2 == GetNextCounter(s1)
             IN  [StreamDumper(s2, type, Timestamp, s2.ret, io) EXCEPT !.ok = TRUE]

\* enabled is what property_get gives for the switch of the stream type; the
\* result has ok = FALSE when nullptr is returned.
CreateStreamDumper(s, type, enabled, io) ==
    IF ~enabled
    THEN [s EXCEPT !.ok = FALSE]
    ELSE
        LET s1 == IF ~s.mgr.mInitialized THEN Initialize(s, io) ELSE [s EXCEPT !.ok = TRUE]
        IN  IF ~s1.ok
            THEN s1
            ELSE LET s2 == GetNextCounter(s1)
                 IN  [StreamDumper(s2, type, Timestamp, s2.ret, io) EXCEPT !.ok = TRUE]

\* ---------------------------------------------------------------- the streams

\* The stream has a dumper (mDumper is not null).
HasDumper(d) == d.life = "live"

\* StreamOutWithDump::write that returns what WriteData returned.
StreamOutWithDump_write_ReturnsDump(s, data, written, io) ==
    IF written > 0 /\ HasDumper(s.d)
    THEN WriteData(s, SubSeq(data, 1, written), io)
    ELSE [s EXCEPT !.ret = written]

\* StreamOutWithDump::write(buffer, bytes): written is what the hardware write
\* returned (the source has bytes in its place); the result has the return value
\* of write in ret.
StreamOutWithDump_write(s, data, written, io) ==
    IF written > 0 /\ HasDumper(s.d)
    THEN [WriteData(s, SubSeq(data, 1, written), io) EXCEPT !.ret = written]
    ELSE [s EXCEPT !.ret = written]

\* StreamInWithDump::read(buffer, bytes): bytesRead is what the hardware read
\* returned.
StreamInWithDump_read(s, data, bytesRead, io) ==
    IF bytesRead > 0 /\ HasDumper(s.d)
    THEN [WriteData(s, SubSeq(data, 1, bytesRead), io) EXCEPT !.ret = bytesRead]
    ELSE [s EXCEPT !.ret = bytesRead]

\* ---------------------------------------------------------------- the state machine

NoCall == [pc |-> "idle", data |-> <<>>]

\* next: the number of the next byte the caller offers; sent: the bytes of the
\* WriteData calls that returned a count; ret: what the last WriteData returned;
\* closed: ForceClose has returned; wasInvalid: IsValid() has been false; last:
\* the last call on the writer ("rejected" and "returned" are WriteData calls
\* that failed the test before the lock or ran the loop, "close2" a ForceClose
\* that directly follows a ForceClose) or, while there is no writer, how the
\* last CreateStreamDumper came to return nullptr ("disabled", "nodir");
\* "destroy" is the destructor of a writer ForceClose was never called on,
\* "destroy2" the destructor after a ForceClose.
NoHist == [next |-> 1, sent |-> <<>>, ret |-> 0, closed |-> FALSE, wasInvalid |-> FALSE,
           last |-> "none"]

\* counters: the values GetNextCounter returned, in the order of the calls;
\* opened: the paths given to ofstream::open; reopened: one was given twice.
\* openFailed, flushFailed, renameFailed: the paths of which the open, a write
\* of FlushBuffer, the rename failed.
NoGhost == [wroteFinal |-> FALSE, renamedOpen |-> FALSE, renamed |-> <<>>,
            aborted |-> {}, finalSnap |-> <<>>, counters |-> <<>>, opened |-> {},
            reopened |-> FALSE,
            openFailed |-> {}, flushFailed |-> {}, renameFailed |-> {}, cleared |-> 0,
            sinceFlush |-> 0, discarded |-> FALSE]

\* The threads: the audio thread of a stream (it calls WriteData), the thread
\* that owns the stream object (it creates, closes and drops the dumper) and a
\* thread that calls Initialize and Shutdown on the manager.
Threads ==
    {<<"audio", w>> : w \in Writers} \cup {<<"owner", w>> : w \in Writers} \cup {<<"admin", 0>>}

\* The mutexes: mMutex of the manager, and mMutex of each StreamDumper.
MgrMutex == 0
Mutexes == {MgrMutex} \cup Writers

NoHolder == <<"none", 0>>

\* at: the call the thread is in (and where in it, for CreateStreamDumper); io:
\* the outcomes of the system calls of the call; type, counter: the locals of
\* CreateStreamDumper.
NoThread == [at |-> "idle", io |-> IoAllOk, type |-> "STREAM_OUT", counter |-> 0]

\* The state after construction of the manager, with no dumper yet; e is what
\* the run allows and dirs what the dump directory path may be at the start.
InitEnv(e, dirs) ==
    /\ dumper = [w \in Writers |-> NoDumper]
    /\ files = <<>>
    /\ dirState \in dirs
    /\ mgr = [mInitialized |-> FALSE, mCompletedFiles |-> <<>>, mFileCounter |-> 0]
    /\ queueFile = <<>>
    /\ logcat = <<>>
    /\ call = [w \in Writers |-> NoCall]
    /\ hist = [w \in Writers |-> NoHist]
    /\ ghost = NoGhost
    /\ env = e
    /\ thread = [t \in Threads |-> NoThread]
    /\ mutex = [m \in Mutexes |-> NoHolder]

InitWith(faults, race, writers, dirs) ==
    InitEnv([faults |-> faults, race |-> race, writers |-> writers, sizes |-> 0..MaxBytes,
             types |-> [w \in Writers |-> StreamTypes], reclose |-> TRUE], dirs)

\* The state after the handler that ran on dumper w has returned in world s.
Commit(w, s) ==
    /\ dumper' = [dumper EXCEPT ![w] = s.d]
    /\ files' = s.files
    /\ dirState' = s.dirState
    /\ mgr' = s.mgr
    /\ queueFile' = s.queueFile
    /\ logcat' = s.logcat
    /\ ghost' = s.ghost

\* A stream object asks the manager for a dumper (initDumper).
CreateStreamDumperAct(w, type) ==
    /\ w \in env.writers
    /\ type \in env.types[w]
    /\ dumper[w].life = "none"
    /\ \A v \in env.writers : v < w => dumper[v].life # "none"
    /\ \E enabled \in BOOLEAN :
         \E s \in {CreateStreamDumper(World(w), type, enabled, io) :
                      io \in IoOutcomes(env.faults, IoCreate)} :
             /\ Commit(w, s)
             /\ hist' = [hist EXCEPT ![w].wasInvalid = s.d.life = "live" /\ ~s.d.mIsValid,
                                     ![w].last = IF s.d.life = "live" THEN "create"
                                                 ELSE IF enabled THEN "nodir" ELSE "disabled"]
    /\ UNCHANGED <<call, env, thread, mutex>>

\* The audio thread enters WriteData with the next size bytes of its stream and
\* makes the test that comes before the lock.
WriteDataBegin(w, size) ==
    /\ dumper[w].life = "live"
    /\ call[w].pc = "idle"
    /\ size \in env.sizes
    /\ hist[w].next - 1 + size <= MaxBytes
    /\ IF WriteDataAdmits(dumper[w], size)
       THEN /\ call' = [call EXCEPT ![w] = [pc |-> "admitted",
                                            data |-> Span(hist[w].next, hist[w].next + size - 1)]]
            /\ hist' = [hist EXCEPT ![w].next = @ + size]
       ELSE /\ hist' = [hist EXCEPT ![w].ret = -1, ![w].last = "rejected"]
            /\ UNCHANGED call
    /\ UNCHANGED <<dumper, files, dirState, mgr, queueFile, logcat, ghost, env, thread, mutex>>

\* The audio thread takes mMutex, runs the loop and returns.
WriteDataBody(w) ==
    /\ dumper[w].life = "live"
    /\ call[w].pc = "admitted"
    /\ \E s \in {WriteLoop(World(w), call[w].data, 0, io) :
                      io \in IoOutcomes(env.faults, IoWrite)} :
             /\ Commit(w, s)
             /\ hist' = [hist EXCEPT ![w].ret = s.ret,
                                     ![w].sent = IF s.ret >= 0 THEN @ \o call[w].data ELSE @,
                                     ![w].wasInvalid = @ \/ ~s.d.mIsValid,
                                     ![w].last = "returned"]
    /\ call' = [call EXCEPT ![w] = NoCall]
    /\ UNCHANGED <<env, thread, mutex>>

\* A thread calls ForceClose; when the run allows racing threads it may do so
\* while the audio thread is between the test and the lock of WriteData.
ForceCloseAct(w) ==
    /\ dumper[w].life = "live"
    /\ env.race \/ call[w].pc = "idle"
    /\ env.reclose \/ ~hist[w].closed
    /\ \E s \in {ForceClose(World(w), io) : io \in IoOutcomes(env.faults, IoClose)} :
             /\ Commit(w, s)
             /\ hist' = [hist EXCEPT ![w].closed = TRUE, ![w].wasInvalid = TRUE,
                                     ![w].last = IF @ \in {"close", "close2"}
                                                 THEN "close2" ELSE "close"]
    /\ UNCHANGED <<call, env, thread, mutex>>

\* The owner drops the dumper (no call is running on it).
DestroyAct(w) ==
    /\ dumper[w].life = "live"
    /\ call[w].pc = "idle"
    /\ \E s \in {DestroyStreamDumper(World(w), io) :
                      io \in IoOutcomes(env.faults, IoClose)} :
             /\ Commit(w, s)
             /\ hist' = [hist EXCEPT ![w].closed = TRUE, ![w].wasInvalid = TRUE,
                                     ![w].last = IF hist[w].closed THEN "destroy2"
                                                 ELSE "destroy"]
    /\ UNCHANGED <<call, env, thread, mutex>>

InitializeAct ==
    /\ \E s \in {Initialize(World(1), io) : io \in IoOutcomes(env.faults, {"mkdir"})} :
             /\ mgr' = s.mgr
             /\ dirState' = s.dirState
    /\ UNCHANGED <<dumper, files, queueFile, logcat, call, hist, ghost, env, thread, mutex>>

ShutdownAct ==
    /\ mgr' = Shutdown(World(1)).mgr
    /\ ghost' = Shutdown(World(1)).ghost
    /\ UNCHANGED <<dumper, files, dirState, queueFile, logcat, call, hist, env, thread, mutex>>

Next ==
    \/ \E w \in Writers, type \in StreamTypes : CreateStreamDumperAct(w, type)
    \/ \E w \in Writers, size \in 0..MaxBytes : WriteDataBegin(w, size)
    \/ \E w \in Writers : WriteDataBody(w)
    \/ \E w \in Writers : ForceCloseAct(w)
    \/ \E w \in Writers : DestroyAct(w)
    \/ InitializeAct
    \/ ShutdownAct

\* One writer; I/O may fail and ForceClose may race with WriteData.
Init == InitWith(TRUE, TRUE, {1}, {"absent", "dir", "notdir"})

Spec == Init /\ [][Next]_vars

\* One writer, no I/O failure, calls on the writer one after the other.
InitSeqNoFail == InitWith(FALSE, FALSE, {1}, {"absent", "dir"})

SpecSeqNoFail == InitSeqNoFail /\ [][Next]_vars

\* One writer, no I/O failure, ForceClose may race with WriteData.
InitRaceNoFail == InitWith(FALSE, TRUE, {1}, {"absent", "dir"})

SpecRaceNoFail == InitRaceNoFail /\ [][Next]_vars

\* One writer, I/O failures, calls on the writer one after the other.
InitSeqFail == InitWith(TRUE, FALSE, {1}, {"absent", "dir", "notdir"})

SpecSeqFail == InitSeqFail /\ [][Next]_vars

\* The size of a chunk that is 0.4 of the rotation threshold (40 MiB of 100 MiB
\* in the source's sizes; a whole number of buffers there and here).
Chunk == (2 * MAX_FILE_SIZE) \div 5

\* No I/O failure, calls one after the other, every WriteData call of one chunk.
InitChunks ==
    InitEnv([faults |-> FALSE, race |-> FALSE, writers |-> Writers, sizes |-> {Chunk},
             types |-> [w \in Writers |-> StreamTypes], reclose |-> TRUE], {"absent", "dir"})

SpecChunks == InitChunks /\ [][Next]_vars

\* ---------------------------------------------------------------- the calls, lock by lock

Audio(w) == <<"audio", w>>
Owner(w) == <<"owner", w>>
Admin == <<"admin", 0>>

\* The writer a thread works on.
WriterOf(t) == t[2]

\* OnDumpFileCompleted is called in the handler that leads from before to after;
\* it locks the manager's mMutex (std::lock_guard) while the caller holds its own.
Notifies(before, after) == after.logcat # before.logcat

\* The mutexes WriteData and ForceClose (the destructor calls ForceClose) lock,
\* in order: mMutex of the writer, then the manager's inside OnDumpFileCompleted.
WriterLocks(w, before, after) ==
    <<w>> \o (IF Notifies(before, after) THEN <<MgrMutex>> ELSE <<>>)

\* The mutex Initialize locks.
InitializeLocks == <<MgrMutex>>

\* Shutdown that closes the dumpers while it holds the manager's mMutex.
ShutdownLocks_ClosesWriters == <<MgrMutex, 1, 2>>

\* The mutex Shutdown locks.
ShutdownLocks == <<MgrMutex>>

\* The mutexes the call a thread is in locks, in the order in which it locks them.
Locks(t) ==
    LET at == thread[t].at
        w == WriterOf(t)
    IN  IF at = "WriteData"
        THEN WriterLocks(w, World(w), WriteLoop(World(w), call[w].data, 0, thread[t].io))
        ELSE IF at \in {"ForceClose", "~StreamDumper"}
        THEN WriterLocks(w, World(w), ForceClose(World(w), thread[t].io))
        ELSE IF at = "Initialize"
        THEN InitializeLocks
        ELSE IF at = "Shutdown"
        THEN ShutdownLocks
        ELSE <<>>

\* The mutexes of the call that the thread does not hold yet.
Needs(t) == SelectSeq(Locks(t), LAMBDA m : mutex[m] # t)

\* std::lock_guard: the thread takes the next mutex of its call when it is free
\* (std::mutex is not recursive: a thread never gets a mutex it holds).
Lock(t) ==
    /\ Needs(t) # <<>>
    /\ mutex[Head(Needs(t))] = NoHolder
    /\ mutex' = [mutex EXCEPT ![Head(Needs(t))] = t]
    /\ UNCHANGED <<dumper, files, dirState, mgr, queueFile, logcat, call, hist, ghost, env,
                   thread>>

\* The mutexes after the lock_guards of the thread have gone out of scope.
Unlocked(t) == [m \in Mutexes |-> IF mutex[m] = t THEN NoHolder ELSE mutex[m]]

\* The thread holds every mutex of its call: the body can run.
InCall(t, at) == thread[t].at = at /\ Needs(t) = <<>>

\* The stream object asks for a dumper: CreateStreamDumper up to its test of
\* mInitialized, which it reads without the manager's mMutex.
CreateStreamDumperEnter(w, type) ==
    /\ w \in env.writers
    /\ type \in env.types[w]
    /\ dumper[w].life = "none"
    /\ thread[Owner(w)].at = "idle"
    /\ \E enabled \in BOOLEAN :
         IF ~enabled
         THEN UNCHANGED thread
         ELSE thread' = [thread EXCEPT ![Owner(w)].at = IF ~mgr.mInitialized
                                                        THEN "Initialize"
                                                        ELSE "GetNextCounter",
                                       ![Owner(w)].type = type]
    /\ UNCHANGED <<dumper, files, dirState, mgr, queueFile, logcat, call, hist, ghost, env,
                   mutex>>

\* Initialize, called by CreateStreamDumper, under the manager's mMutex.
CreateStreamDumperInitialize(w) ==
    /\ InCall(Owner(w), "Initialize")
    /\ \E s \in {Initialize(World(w), io) : io \in IoOutcomes(env.faults, {"mkdir"})} :
         /\ mgr' = s.mgr
         /\ dirState' = s.dirState
         /\ thread' = [thread EXCEPT ![Owner(w)].at = IF s.ok THEN "GetNextCounter" ELSE "idle"]
    /\ mutex' = Unlocked(Owner(w))
    /\ UNCHANGED <<dumper, files, queueFile, logcat, call, hist, ghost, env>>

\* mFileCounter.fetch_add, one atomic step with no mutex.
CreateStreamDumperCounter(w) ==
    /\ thread[Owner(w)].at = "GetNextCounter"
    /\ LET s == GetNextCounter(World(w))
       IN  /\ mgr' = s.mgr
           /\ ghost' = s.ghost
           /\ thread' = [thread EXCEPT ![Owner(w)].at = "StreamDumper",
                                       ![Owner(w)].counter = s.ret]
    /\ UNCHANGED <<dumper, files, dirState, queueFile, logcat, call, hist, env, mutex>>

\* The constructor of the StreamDumper; CreateStreamDumper returns the object.
CreateStreamDumperConstruct(w) ==
    /\ thread[Owner(w)].at = "StreamDumper"
    /\ \E s \in {StreamDumper(World(w), thread[Owner(w)].type, Timestamp,
                              thread[Owner(w)].counter, io) :
                      io \in IoOutcomes(env.faults, {"open"})} :
         /\ Commit(w, s)
         /\ hist' = [hist EXCEPT ![w].wasInvalid = ~s.d.mIsValid, ![w].last = "create"]
    /\ thread' = [thread EXCEPT ![Owner(w)] = NoThread]
    /\ UNCHANGED <<call, env, mutex>>

\* The audio thread enters WriteData and makes the test that comes before the lock.
WriteDataEnter(w, size) ==
    /\ dumper[w].life = "live"
    /\ call[w].pc = "idle"
    /\ thread[Owner(w)].at # "~StreamDumper"
    /\ size \in env.sizes
    /\ hist[w].next - 1 + size <= MaxBytes
    /\ IF WriteDataAdmits(dumper[w], size)
       THEN /\ call' = [call EXCEPT ![w] = [pc |-> "admitted",
                                            data |-> Span(hist[w].next, hist[w].next + size - 1)]]
            /\ hist' = [hist EXCEPT ![w].next = @ + size]
            /\ \E io \in IoOutcomes(env.faults, IoWrite) :
                 thread' = [thread EXCEPT ![Audio(w)].at = "WriteData", ![Audio(w)].io = io]
       ELSE /\ hist' = [hist EXCEPT ![w].ret = -1, ![w].last = "rejected"]
            /\ UNCHANGED <<call, thread>>
    /\ UNCHANGED <<dumper, files, dirState, mgr, queueFile, logcat, ghost, env, mutex>>

\* The loop of WriteData has run under the mutexes; WriteData returns.
WriteDataReturn(w) ==
    /\ InCall(Audio(w), "WriteData")
    /\ LET s == WriteLoop(World(w), call[w].data, 0, thread[Audio(w)].io)
       IN  /\ Commit(w, s)
           /\ hist' = [hist EXCEPT ![w].ret = s.ret,
                                   ![w].sent = IF s.ret >= 0 THEN @ \o call[w].data ELSE @,
                                   ![w].wasInvalid = @ \/ ~s.d.mIsValid,
                                   ![w].last = "returned"]
    /\ call' = [call EXCEPT ![w] = NoCall]
    /\ thread' = [thread EXCEPT ![Audio(w)] = NoThread]
    /\ mutex' = Unlocked(Audio(w))
    /\ UNCHANGED env

\* The owner calls ForceClose, or drops the dumper (once no call is running on it).
ForceCloseEnter(w, at) ==
    /\ dumper[w].life = "live"
    /\ thread[Owner(w)].at = "idle"
    /\ at = "ForceClose" \/ call[w].pc = "idle"
    /\ at = "ForceClose" => (env.reclose \/ ~hist[w].closed)
    /\ env.race \/ call[w].pc = "idle"
    /\ \E io \in IoOutcomes(env.faults, IoClose) :
         thread' = [thread EXCEPT ![Owner(w)].at = at, ![Owner(w)].io = io]
    /\ UNCHANGED <<dumper, files, dirState, mgr, queueFile, logcat, call, hist, ghost, env,
                   mutex>>

\* ForceClose has run under the mutexes and returns.
ForceCloseReturn(w) ==
    /\ \/ InCall(Owner(w), "ForceClose")
       \/ InCall(Owner(w), "~StreamDumper")
    /\ LET s == IF thread[Owner(w)].at = "ForceClose"
                THEN ForceClose(World(w), thread[Owner(w)].io)
                ELSE DestroyStreamDumper(World(w), thread[Owner(w)].io)
       IN  /\ Commit(w, s)
           /\ hist' = [hist EXCEPT ![w].closed = TRUE, ![w].wasInvalid = TRUE,
                                   ![w].last = IF thread[Owner(w)].at = "~StreamDumper"
                                               THEN IF hist[w].closed THEN "destroy2"
                                                    ELSE "destroy"
                                               ELSE IF @ \in {"close", "close2"}
                                               THEN "close2" ELSE "close"]
    /\ thread' = [thread EXCEPT ![Owner(w)] = NoThread]
    /\ mutex' = Unlocked(Owner(w))
    /\ UNCHANGED <<call, env>>

\* A thread calls Initialize or Shutdown on the manager.
ManagerEnter(at) ==
    /\ thread[Admin].at = "idle"
    /\ thread' = [thread EXCEPT ![Admin].at = at]
    /\ UNCHANGED <<dumper, files, dirState, mgr, queueFile, logcat, call, hist, ghost, env,
                   mutex>>

InitializeReturn ==
    /\ InCall(Admin, "Initialize")
    /\ \E s \in {Initialize(World(1), io) : io \in IoOutcomes(env.faults, {"mkdir"})} :
         /\ mgr' = s.mgr
         /\ dirState' = s.dirState
    /\ thread' = [thread EXCEPT ![Admin] = NoThread]
    /\ mutex' = Unlocked(Admin)
    /\ UNCHANGED <<dumper, files, queueFile, logcat, call, hist, ghost, env>>

ShutdownReturn ==
    /\ InCall(Admin, "Shutdown")
    /\ mgr' = Shutdown(World(1)).mgr
    /\ ghost' = Shutdown(World(1)).ghost
    /\ thread' = [thread EXCEPT ![Admin] = NoThread]
    /\ mutex' = Unlocked(Admin)
    /\ UNCHANGED <<dumper, files, dirState, queueFile, logcat, call, hist, env>>

NextLocks ==
    \/ \E w \in Writers, type \in StreamTypes : CreateStreamDumperEnter(w, type)
    \/ \E w \in Writers : CreateStreamDumperInitialize(w)
    \/ \E w \in Writers : CreateStreamDumperCounter(w)
    \/ \E w \in Writers : CreateStreamDumperConstruct(w)
    \/ \E w \in Writers, size \in 0..MaxBytes : WriteDataEnter(w, size)
    \/ \E w \in Writers : WriteDataReturn(w)
    \/ \E w \in Writers, at \in {"ForceClose", "~StreamDumper"} : ForceCloseEnter(w, at)
    \/ \E w \in Writers : ForceCloseReturn(w)
    \/ \E at \in {"Initialize", "Shutdown"} : ManagerEnter(at)
    \/ InitializeReturn
    \/ ShutdownReturn
    \/ \E t \in Threads : Lock(t)

\* Two writers with their audio and owner threads and a thread on the manager,
\* every call taking its mutexes one by one; no I/O failure.  Each audio
\* thread makes one WriteData call, of all the bytes of the run: it fills the
\* first file, rotates and leaves bytes in the buffer.  Each owner calls
\* ForceClose once before it drops the dumper, as closeDumper does.  The first
\* stream is an output stream, the second of either kind.
InitLocks ==
    InitEnv([faults |-> FALSE, race |-> TRUE, writers |-> Writers, sizes |-> {MaxBytes},
             types |-> [w \in Writers |-> IF w = 1 THEN {"STREAM_OUT"} ELSE StreamTypes],
             reclose |-> FALSE], {"absent", "dir"})

SpecLocks == InitLocks /\ [][NextLocks]_vars

\* ---------------------------------------------------------------- the claims

Created == {w \in Writers : dumper[w].life # "none"}

\* The final and the temp name of the file of index i of a dumper.
FinalName(d, i) == GenerateFilename([d EXCEPT !.mFileIndex = i], FALSE)
TmpName(d, i) == GenerateFilename([d EXCEPT !.mFileIndex = i], TRUE)

IsFinal(name) == name[6] = "pcm"
IsTmp(name) == name[6] = "pcm.tmp"

\* The name is one of the names the dumper generates.
IsOf(d, name) ==
    name[2] = GetStreamTypeString(d) /\ name[3] = d.mTimestamp /\ name[4] = d.mBaseCounter

\* The files the dumper renamed to their final names, in the order of the renames.
RenamedBy(d) == SelectSeq(ghost.renamed, LAMBDA n : IsOf(d, n))

\* The indices of the files of a dumper that carry their final name.
FinalIndices(d) == {i \in 0..(d.mFileIndex - 1) : FinalName(d, i) \in DOMAIN files}

\* The contents of the final-named files of indices below n, in index order.
RECURSIVE ConcatFinals(_, _)
ConcatFinals(d, n) ==
    IF n = 0
    THEN <<>>
    ELSE ConcatFinals(d, n - 1) \o
         (IF FinalName(d, n - 1) \in DOMAIN files THEN files[FinalName(d, n - 1)] ELSE <<>>)

RECURSIVE SizeOfFinals(_, _)
SizeOfFinals(d, n) ==
    IF n = 0
    THEN 0
    ELSE SizeOfFinals(d, n - 1) +
         (IF FinalName(d, n - 1) \in DOMAIN files THEN Len(files[FinalName(d, n - 1)]) ELSE 0)

NoDuplicates(seq) == \A i, j \in 1..Len(seq) : seq[i] = seq[j] => i = j

Range(seq) == {seq[i] : i \in 1..Len(seq)}

\* C1: Atomic completion.  A file that carries its final name has the content
\* it had when it was given that name and stays in the directory; no write
\* ever went to a final-named file, every open handle is on a temp-named file,
\* and no rename was made on a file whose handle was still open.
C1_AtomicCompletion ==
    /\ ~ghost.wroteFinal
    /\ ~ghost.renamedOpen
    /\ \A n \in DOMAIN files :
         IsFinal(n) => n \in DOMAIN ghost.finalSnap /\ files[n] = ghost.finalSnap[n]
    /\ \A n \in DOMAIN ghost.finalSnap : n \in DOMAIN files
    /\ \A w \in Created : dumper[w].mFile.open => IsTmp(dumper[w].mFile.path)

\* A finalized file exists while the writer has gone on to write a later file.
C1_Witness ==
    \E w \in Created :
        /\ FinalName(dumper[w], 0) \in DOMAIN files
        /\ dumper[w].mFile.open
        /\ dumper[w].mCurrentFileSize > 0
        /\ dumper[w].mFileIndex >= 2

\* C2: Stream continuity.  With no failure and the calls made one after the
\* other, once ForceClose has returned the finalized files of the writer, read
\* in index order, hold exactly the bytes of the WriteData calls in call order.
C2_StreamContinuity ==
    \A w \in Created :
        hist[w].closed => ConcatFinals(dumper[w], dumper[w].mFileIndex) = hist[w].sent

\* Closed after writes that crossed a rotation and left a partly filled buffer.
C2_Witness ==
    \E w \in Created :
        /\ hist[w].closed
        /\ Len(hist[w].sent) > MAX_FILE_SIZE
        /\ Len(hist[w].sent) % BUFFER_SIZE # 0
        /\ ConcatFinals(dumper[w], dumper[w].mFileIndex) = hist[w].sent

\* C3: Rotation.  A fresh writer that took MAX_FILE_SIZE + 1 bytes in calls of
\* any sizes and was then closed has exactly two finalized files, of sizes that
\* sum to MAX_FILE_SIZE + 1, finalized in the order of their indices.
C3_Rotation ==
    \A w \in Created :
        (hist[w].closed /\ Len(hist[w].sent) = MAX_FILE_SIZE + 1) =>
            /\ Cardinality(FinalIndices(dumper[w])) = 2
            /\ SizeOfFinals(dumper[w], dumper[w].mFileIndex) = MAX_FILE_SIZE + 1
            /\ Len(RenamedBy(dumper[w])) = 2
            /\ RenamedBy(dumper[w])[1][5] < RenamedBy(dumper[w])[2][5]

\* MAX_FILE_SIZE + 1 bytes were written and ForceClose left two finalized files.
C3_Witness ==
    \E w \in Created :
        /\ hist[w].closed
        /\ Len(hist[w].sent) = MAX_FILE_SIZE + 1
        /\ Cardinality(FinalIndices(dumper[w])) = 2

\* C4 as stated: after WriteData calls that all succeeded, total_bytes_written
\* is the sum of their sizes.
C4_Original ==
    \A w \in Created : dumper[w].mTotalBytesWritten = Len(hist[w].sent)

\* C4, amended: total_bytes_written is the sum of the sizes of the successful
\* calls less the bytes still in the buffer, and is that sum once ForceClose
\* has returned.
C4_TotalBytesWritten ==
    \A w \in Created :
        /\ dumper[w].mTotalBytesWritten + dumper[w].mBufferOffset = Len(hist[w].sent)
        /\ hist[w].closed => dumper[w].mTotalBytesWritten = Len(hist[w].sent)

\* Bytes have reached the file and others are still in the buffer.
C4_Witness ==
    \E w \in Created :
        /\ ~hist[w].closed
        /\ hist[w].last = "returned"
        /\ dumper[w].mTotalBytesWritten > 0
        /\ dumper[w].mBufferOffset > 0

\* C5 as stated: with ForceClose racing WriteData and no I/O failure, the bytes
\* of every WriteData that returned a count are in finalized files once the
\* writer is destroyed, and once ForceClose has returned and no call is
\* running, no file is open and no byte is buffered.
C5_Original ==
    \A w \in Created :
        /\ dumper[w].life = "destroyed" =>
               ConcatFinals(dumper[w], dumper[w].mFileIndex) = hist[w].sent
        /\ (hist[w].closed /\ call[w].pc = "idle") =>
               ~dumper[w].mFile.open /\ dumper[w].mBufferOffset = 0

\* C6: Closed is terminal.  Once IsValid() has been false it is false; once
\* ForceClose has returned, a WriteData call of any size returns -1 and leaves
\* the writer, the files, the manager and the log as they were.
C6_ClosedIsTerminal ==
    \A w \in Created :
        /\ hist[w].wasInvalid => ~dumper[w].mIsValid
        /\ hist[w].closed =>
               LET now == World(w)
                   turnedAway == [now EXCEPT !.ret = -1]
               IN  \A size \in 0..(MaxBytes - hist[w].next + 1) :
                       \A io \in IoOutcomes(env.faults, IoWrite) :
                           WriteData(now, Span(hist[w].next, hist[w].next + size - 1), io)
                               = turnedAway

\* A WriteData call made after ForceClose returned was turned away.
C6_Witness ==
    \E w \in Created :
        /\ hist[w].closed
        /\ hist[w].last = "rejected"
        /\ hist[w].ret = -1
        /\ Len(hist[w].sent) > 0

\* C7: The AUDIO_DUMP_READY lines are the successful renames, in order, one
\* line for each; every file named in a line carries its final name in the
\* directory and every final-named file has its line.
C7_NotifiedOncePerRename ==
    /\ logcat = ghost.renamed
    /\ NoDuplicates(logcat)
    /\ \A n \in Range(logcat) : IsFinal(n) /\ n \in DOMAIN files
    /\ \A n \in DOMAIN files : IsFinal(n) => n \in Range(logcat)

\* One file was reported, and a file whose rename failed is left under its
\* temp name, closed and unreported.
C7_Witness ==
    /\ Len(logcat) >= 1
    /\ \E n \in DOMAIN files :
         /\ IsTmp(n)
         /\ \A w \in Created : ~(dumper[w].mFile.open /\ dumper[w].mFile.path = n)
         /\ [n EXCEPT ![6] = "pcm"] \notin Range(logcat)

\* C8 as stated: no final-named file is empty; a file of which a write failed
\* never carries its final name and is never reported; once it is closed its
\* temp file is gone.
C8_Original ==
    /\ \A n \in DOMAIN files : IsFinal(n) => Len(files[n]) > 0
    /\ \A n \in ghost.aborted :
         /\ [n EXCEPT ![6] = "pcm"] \notin DOMAIN files
         /\ [n EXCEPT ![6] = "pcm"] \notin Range(logcat)
         /\ (\A w \in Created : ~(dumper[w].mFile.open /\ dumper[w].mFile.path = n))
                => n \notin DOMAIN files

\* The names in the directory, the log or the index that belong to a dumper.
NamesOf(d) ==
    {n \in (DOMAIN files) \cup Range(logcat) \cup Range(queueFile)
           \cup Range(mgr.mCompletedFiles) :
        IsOf(d, n)}

\* C9: A writer on which ForceClose has returned and on which no WriteData was
\* ever admitted has no file, final or temp, and no notification.
C9_FreshForceClose ==
    \A w \in Created :
        (hist[w].closed /\ hist[w].next = 1) => NamesOf(dumper[w]) = {}

\* ForceClose was called on a writer whose first file was open and empty.
C9_Witness ==
    \E w \in Created :
        /\ hist[w].closed
        /\ hist[w].next = 1
        /\ hist[w].last = "close"
        /\ dumper[w].mFileCount = 1

\* C10: ForceClose is idempotent.  From every reachable state, whatever the
\* outcomes of the system calls, a second ForceClose leaves the writer, the
\* files, the manager, the index and the log as the first one left them.
C10_ForceCloseIdempotent ==
    \A w \in Created :
        dumper[w].life = "live" =>
            \A io1 \in IoOutcomes(env.faults, IoClose) :
                LET s1 == ForceClose(World(w), io1)
                IN  \A io2 \in IoOutcomes(env.faults, IoClose) : ForceClose(s1, io2) = s1

\* ForceClose was called twice in a row on a writer that had finalized a file.
C10_Witness ==
    \E w \in Created :
        /\ hist[w].last = "close2"
        /\ Len(logcat) >= 1
        /\ dumper[w].mTotalBytesWritten % BUFFER_SIZE # 0

\* The owner threads that are in CreateStreamDumper with a counter in hand.
Constructing == {w \in Writers : thread[Owner(w)].at = "StreamDumper"}

\* The base counter a writer has or is about to be constructed with.
CounterOf(w) == IF w \in Constructing THEN thread[Owner(w)].counter ELSE dumper[w].mBaseCounter

\* C11: Session counters.  With CreateStreamDumper calls interleaved step by
\* step with each other and with Initialize and Shutdown, the values
\* GetNextCounter hands out strictly increase in the order of the calls, no two
\* writers have the same base counter, and the counter of the manager is
\* above every value it handed out.
C11_SessionCounters ==
    /\ \A i, j \in 1..Len(ghost.counters) : i < j => ghost.counters[i] < ghost.counters[j]
    /\ \A i \in 1..Len(ghost.counters) : ghost.counters[i] < mgr.mFileCounter
    /\ \A v, w \in Created \cup Constructing : v # w => CounterOf(v) # CounterOf(w)

\* Two CreateStreamDumper calls are in progress at once, each with its counter,
\* and the manager has been shut down since they tested mInitialized.
C11_Witness ==
    /\ Constructing = Writers
    /\ Len(ghost.counters) = 2
    /\ ~mgr.mInitialized

\* The temp names of the files a writer has opened so far.
OpenedBy(w) == {TmpName(dumper[w], i) : i \in 0..(dumper[w].mFileIndex - 1)}

\* C12: Filename non-collision.  No path is given to ofstream::open twice and
\* no final name is the target of two renames, whether the files are of one
\* writer or of two writers of the same or of different kinds running at once;
\* every name is made of the kind, the timestamp, the base counter and the
\* file index alone, and files of different writers differ in the counter.
C12_NoNameCollision ==
    /\ ~ghost.reopened
    /\ NoDuplicates(ghost.renamed)
    /\ \A n \in ghost.opened :
         /\ IsTmp(n)
         /\ \E w \in Created : \E i \in 0..dumper[w].mFileIndex : n = TmpName(dumper[w], i)
    /\ \A v, w \in Created : v # w => OpenedBy(v) \cap OpenedBy(w) = {}
    /\ \A v, w \in Created : \A i, j \in 0..2 :
         (FinalName(dumper[v], i) = FinalName(dumper[w], j)) <=>
             /\ dumper[v].mType = dumper[w].mType
             /\ dumper[v].mTimestamp = dumper[w].mTimestamp
             /\ dumper[v].mBaseCounter = dumper[w].mBaseCounter
             /\ i = j

\* Two writers of the same kind, created in the same second, have each
\* opened two files, and three of the four carry their final names.
C12_Witness ==
    /\ Created = Writers
    /\ dumper[1].mType = dumper[2].mType
    /\ dumper[1].mTimestamp = dumper[2].mTimestamp
    /\ \A w \in Writers : dumper[w].mFileIndex = 2
    /\ Cardinality(ghost.opened) = 4
    /\ Len(ghost.renamed) = 3

\* An open (in the constructor or at rotation) or a write of FlushBuffer has
\* failed on a file of the writer.
OpenOrFlushFailed(w) ==
    \E n \in ghost.openFailed \cup ghost.flushFailed : IsOf(dumper[w], n)

FinalOf(n) == [n EXCEPT ![6] = "pcm"]

\* C14: Rename failure.  A file of which the rename failed is in the
\* directory under its temp name, no file carries its final name, and its
\* name is not in the log, the completed list or the index.  When a valid
\* writer is due to rotate, a WriteData call in which the rename fails leaves
\* the writer as the same call with a successful rename does, with the same
\* return value: valid if the open succeeds, on the file of the next index.
C14_RenameFailure ==
    /\ \A n \in ghost.renameFailed :
         /\ n \in DOMAIN files
         /\ FinalOf(n) \notin DOMAIN files
         /\ FinalOf(n) \notin Range(logcat) \cup Range(mgr.mCompletedFiles) \cup Range(queueFile)
    /\ \A w \in Created :
         (dumper[w].life = "live" /\ dumper[w].mIsValid /\ NeedsRotation(dumper[w])
              /\ call[w].pc = "idle") =>
             LET now == World(w)
             IN  \A size \in 1..(MaxBytes - hist[w].next + 1) :
                     \A io \in IoOutcomes(env.faults, IoWrite) :
                         LET data == Span(hist[w].next, hist[w].next + size - 1)
                             failing == WriteData(now, data, [io EXCEPT !.rename = FALSE])
                             renaming == WriteData(now, data, [io EXCEPT !.rename = TRUE])
                         IN  /\ failing.d = renaming.d
                             /\ failing.ret = renaming.ret
                             /\ failing.logcat = now.logcat
                             /\ (io.open /\ io.write) =>
                                    /\ failing.d.mIsValid
                                    /\ failing.d.mFileIndex = now.d.mFileIndex + 1
                                    /\ failing.ret = size

\* The rename of the first file failed at rotation; the writer is valid, has
\* opened the second file and bytes of a later call have reached it.
C14_Witness ==
    \E w \in Created :
        /\ TmpName(dumper[w], 0) \in ghost.renameFailed
        /\ TmpName(dumper[w], 0) \in DOMAIN files
        /\ dumper[w].mIsValid
        /\ dumper[w].mFileIndex = 2
        /\ dumper[w].mCurrentFileSize > 0
        /\ hist[w].last = "returned"
        /\ hist[w].ret > 0
        /\ logcat = <<>>

\* A world without what only the append to the index file decides: the index
\* file and the boolean AppendToQueueFile returned.
ButIndex(s) == [s EXCEPT !.queueFile = <<>>, !.ok = TRUE]

\* C15: Index append failure.  OnDumpFileCompleted with a failing append adds
\* the name to the completed list and emits one log line, and leaves the index
\* file alone; a ForceClose, and a WriteData that rotates, in which the append
\* fails leave everything but the index file as the same call with a
\* successful append does.
C15_AppendFailure ==
    \A w \in Created :
        dumper[w].life = "live" =>
            LET now == World(w)
                name == now.d.mCurrentFilename
            IN  /\ \A io \in IoOutcomes(env.faults, IoClose) :
                       LET failing == [io EXCEPT !.append = FALSE]
                           appending == [io EXCEPT !.append = TRUE]
                           told == OnDumpFileCompleted(now, name, failing)
                       IN  /\ told.mgr.mCompletedFiles = Append(now.mgr.mCompletedFiles, name)
                           /\ told.logcat = Append(now.logcat, name)
                           /\ told.queueFile = now.queueFile
                           /\ ButIndex(ForceClose(now, failing))
                                  = ButIndex(ForceClose(now, appending))
                           /\ ForceClose(now, failing).queueFile = now.queueFile
                /\ (dumper[w].mIsValid /\ NeedsRotation(dumper[w]) /\ call[w].pc = "idle") =>
                       \A size \in 1..(MaxBytes - hist[w].next + 1) :
                           \A io \in IoOutcomes(env.faults, IoWrite) :
                               LET data == Span(hist[w].next, hist[w].next + size - 1)
                               IN  ButIndex(WriteData(now, data, [io EXCEPT !.append = FALSE]))
                                     = ButIndex(WriteData(now, data, [io EXCEPT !.append = TRUE]))

\* ForceClose has finalized and reported a file of which the append to the
\* index file failed.
C15_Witness ==
    \E w \in Created :
        /\ hist[w].last = "close"
        /\ Len(logcat) = 1
        /\ mgr.mCompletedFiles = logcat
        /\ queueFile = <<>>
        /\ logcat[1] \in DOMAIN files
        /\ ~dumper[w].mFile.open

\* The slots in which a stream has no dumper yet.
NotCreated == {w \in env.writers : dumper[w].life = "none"}

\* EnsureDumpDirectory fails in the state of world s with outcomes io.
BootstrapFails(s, io) ==
    ~s.mgr.mInitialized /\ (s.dirState = "notdir" \/ (s.dirState = "absent" /\ ~io.mkdir))

\* C16: Setup failure.  With the switch on, a CreateStreamDumper in which the
\* directory bootstrap fails returns nullptr and changes nothing: the manager
\* is still uninitialized, no file and no directory is made, no counter is
\* used.  A later call bootstraps again: when the directory can then be made
\* it makes it, initializes the manager and returns a writer.
C16_SetupFailure ==
    \A w \in NotCreated : \A type \in StreamTypes :
        \A io \in IoOutcomes(env.faults, IoCreate) :
            LET now == World(w)
                refused == CreateStreamDumper(now, type, TRUE, io)
            IN  BootstrapFails(now, io) =>
                    /\ refused = [now EXCEPT !.ok = FALSE]
                    /\ ~refused.mgr.mInitialized
                    /\ now.dirState = "absent" =>
                           LET again == CreateStreamDumper(refused, type, TRUE,
                                                           [io EXCEPT !.mkdir = TRUE])
                           IN  /\ again.ok
                               /\ again.dirState = "dir"
                               /\ again.mgr.mInitialized
                               /\ again.d.life = "live"

\* CreateStreamDumper has returned nullptr because the directory could not
\* be made; there is still no directory, no file, and the manager is not
\* initialized.
C16_Witness ==
    \E w \in NotCreated :
        /\ hist[w].last = "nodir"
        /\ dirState = "absent"
        /\ ~mgr.mInitialized
        /\ mgr.mFileCounter = 0
        /\ files = <<>>

\* C17: Disabled switch.  With the switch off, CreateStreamDumper returns
\* nullptr and leaves the directory, the files, the manager (initialized flag,
\* counter, completed list), the index and the log as they are, in every
\* reachable state and whatever the system calls would return.
C17_DisabledSwitch ==
    \A w \in Writers : \A type \in StreamTypes :
        \A io \in IoOutcomes(env.faults, IoCreate) :
            LET now == World(w)
            IN  CreateStreamDumper(now, type, FALSE, io) = [now EXCEPT !.ok = FALSE]

\* CreateStreamDumper has returned nullptr on the switch while the manager
\* was not initialized and the directory did not exist, and they still are so.
C17_Witness ==
    \E w \in NotCreated :
        /\ hist[w].last = "disabled"
        /\ dirState = "absent"
        /\ ~mgr.mInitialized
        /\ files = <<>>

\* C18: The audio path.  In every reachable state (no dumper, a valid one, an
\* invalid one, one that was dropped), for a buffer of up to BUFFER_SIZE bytes
\* (which makes WriteData fill and flush its buffer, and rotate when the file is
\* full), whether the hardware call fails, transfers nothing or transfers the
\* buffer, and whatever the system calls of the dump return, write and read
\* return the result of the hardware call.
C18_AudioPath ==
    \A io \in IoOutcomes(env.faults, IoWrite) :
        \A w \in Writers :
            call[w].pc = "idle" =>
                LET now == World(w)
                IN  \A size \in 0..Min(BUFFER_SIZE, MaxBytes - hist[w].next + 1) :
                        LET data == Span(hist[w].next, hist[w].next + size - 1)
                        IN  \A hw \in {-1, 0, size} :
                                /\ StreamOutWithDump_write(now, data, hw, io).ret = hw
                                /\ StreamInWithDump_read(now, data, hw, io).ret = hw

\* WriteData has returned -1 on a dumper whose file could not be opened at
\* rotation, and a write on the stream makes WriteData return -1 again.
C18_Witness ==
    \E w \in Created :
        /\ HasDumper(dumper[w])
        /\ ~dumper[w].mIsValid
        /\ hist[w].last = "returned"
        /\ hist[w].ret = -1
        /\ ghost.openFailed # {}
        /\ WriteData(World(w), <<hist[w].next>>, IoAllOk).ret = -1
        /\ StreamOutWithDump_write(World(w), <<hist[w].next>>, 1, IoAllOk).ret = 1

\* An open, a write, a flush or a rename has failed on a file of the writer.
Failed(w) ==
    \E n \in ghost.openFailed \cup ghost.flushFailed \cup ghost.aborted
                 \cup ghost.renameFailed :
        IsOf(dumper[w], n)

\* The files of a writer in the directory that carry a temp name.
TempsOf(w) == {n \in DOMAIN files : IsOf(dumper[w], n) /\ IsTmp(n)}

\* C19: Finalize on destruction.  Dropping a live writer leaves the files,
\* the manager, the index and the log exactly as ForceClose on it does.  Once a
\* writer has been dropped with ForceClose never called on it: no byte is in
\* its buffer and its file is closed; if no rename of its files failed, none of
\* its temp files is left; and if no system call failed on its files, its final
\* files hold, in index order, the bytes of the WriteData calls that returned a
\* count, and each of them is in the log.
C19_FinalizeOnDestruction ==
    \A w \in Created :
        /\ (dumper[w].life = "live" /\ call[w].pc = "idle") =>
               \A io \in IoOutcomes(env.faults, IoClose) :
                   [DestroyStreamDumper(World(w), io) EXCEPT !.d.life = "live"]
                       = ForceClose(World(w), io)
        /\ hist[w].last = "destroy" =>
               /\ dumper[w].life = "destroyed"
               /\ dumper[w].mBufferOffset = 0
               /\ ~dumper[w].mFile.open
               /\ (\A n \in ghost.renameFailed : ~IsOf(dumper[w], n)) => TempsOf(w) = {}
               /\ ~Failed(w) =>
                      /\ ConcatFinals(dumper[w], dumper[w].mFileIndex) = hist[w].sent
                      /\ \A n \in DOMAIN files :
                             IsOf(dumper[w], n) => IsFinal(n) /\ n \in Range(logcat)

\* A writer was dropped with bytes in its buffer and ForceClose never called;
\* its second file was promoted by the destructor.
C19_Witness ==
    \E w \in Created :
        /\ hist[w].last = "destroy"
        /\ ~Failed(w)
        /\ Len(hist[w].sent) > MAX_FILE_SIZE
        /\ Len(hist[w].sent) % BUFFER_SIZE # 0
        /\ Len(logcat) = 2
        /\ ConcatFinals(dumper[w], dumper[w].mFileIndex) = hist[w].sent

\* The thread is in a call and waits for a mutex that another thread holds.
WaitsFor(t, u) ==
    /\ Needs(t) # <<>>
    /\ mutex[Head(Needs(t))] = u

\* Who waits for whom.
WaitGraph == {<<t, IF Needs(t) = <<>> THEN NoHolder ELSE mutex[Head(Needs(t))]>> : t \in Threads}

\* C20: No deadlock.  Whatever calls run at once on two writers and on the
\* manager: a thread that holds the manager's mutex needs no other mutex, and
\* a call takes the manager's mutex last (the only nesting is writer, then
\* manager); a held mutex belongs to a thread inside a call that takes it; and
\* no set of threads wait for each other in a circle.  So each chain of waiting
\* threads ends in a thread that waits for no one, and that thread can take
\* the next of the finitely many steps of its call.
C20_NoDeadlock ==
    /\ \A t \in Threads :
           LET locks == Locks(t)
           IN  /\ mutex[MgrMutex] = t => \A i \in 1..Len(locks) : mutex[locks[i]] = t
               /\ \A i \in 1..(Len(locks) - 1) : locks[i] # MgrMutex
               /\ \A m \in Mutexes : mutex[m] = t => m \in Range(locks)
    /\ \A m \in Mutexes :
           mutex[m] # NoHolder => mutex[m] \in Threads /\ thread[mutex[m]].at # "idle"
    /\ LET waits == WaitGraph
       IN  \A S \in SUBSET Threads \ {{}} :
               \E t \in S : \A u \in S : <<t, u>> \notin waits

\* A WriteData call that rotates holds its writer's mutex and waits for the
\* manager's, which Shutdown holds, while the owner of the writer waits in
\* ForceClose for the writer's mutex, and the other writer is in a call too.
C20_Witness ==
    \E w \in Writers :
        /\ mutex[w] = Audio(w)
        /\ WaitsFor(Audio(w), Admin)
        /\ thread[Admin].at = "Shutdown"
        /\ WaitsFor(Owner(w), Audio(w))
        /\ \E v \in Writers \ {w} : thread[Audio(v)].at = "WriteData"

\* No name occurs twice in the sequence.
NoDuplicate(seq) == \A i, j \in 1..Len(seq) : seq[i] = seq[j] => i = j

ChunksDone(w, n) ==
    /\ dumper[w].life = "live"
    /\ call[w].pc = "idle"
    /\ Len(hist[w].sent) = n * Chunk

\* C22 as stated: after the second chunk file #0 is final.
C22_Original ==
    \A w \in Created :
        (ChunksDone(w, 2) /\ ~hist[w].closed) => FinalName(dumper[w], 0) \in DOMAIN files

\* C22, amended: Rotation scenario.  With WriteData calls of 0.4 of the
\* threshold each: after the second call file #0 is still the open temp file
\* and holds both chunks; after the third call file #0 is final, holds exactly
\* the threshold and is in the log, and file #1 is the open temp file and holds
\* the remaining 0.2 of the threshold; ForceClose then makes file #1 final with
\* these bytes and puts it in the log after file #0.
C22_Scenario ==
    \A w \in Created :
        LET d == dumper[w]
            done == Len(hist[w].sent)
        IN  /\ (ChunksDone(w, 2) /\ ~hist[w].closed) =>
                   /\ d.mFile.open /\ d.mFile.path = TmpName(d, 0)
                   /\ files[TmpName(d, 0)] = Span(1, 2 * Chunk)
                   /\ FinalName(d, 0) \notin DOMAIN files
                   /\ FinalName(d, 0) \notin Range(logcat)
            /\ (ChunksDone(w, 3) /\ ~hist[w].closed) =>
                   /\ FinalName(d, 0) \in DOMAIN files
                   /\ files[FinalName(d, 0)] = Span(1, MAX_FILE_SIZE)
                   /\ FinalName(d, 0) \in Range(logcat)
                   /\ d.mFile.open /\ d.mFile.path = TmpName(d, 1)
                   /\ files[TmpName(d, 1)] \o SubSeq(d.mBuffer, 1, d.mBufferOffset)
                          = Span(MAX_FILE_SIZE + 1, 3 * Chunk)
                   /\ FinalName(d, 1) \notin DOMAIN files
            /\ (ChunksDone(w, 3) /\ hist[w].closed) =>
                   /\ ~d.mFile.open
                   /\ TmpName(d, 1) \notin DOMAIN files
                   /\ files[FinalName(d, 0)] = Span(1, MAX_FILE_SIZE)
                   /\ files[FinalName(d, 1)] = Span(MAX_FILE_SIZE + 1, 3 * Chunk)
                   /\ Len(files[FinalName(d, 1)]) = MAX_FILE_SIZE \div 5
                   /\ \E i, j \in 1..Len(logcat) :
                          /\ i < j
                          /\ logcat[i] = FinalName(d, 0)
                          /\ logcat[j] = FinalName(d, 1)

\* Three chunks and then ForceClose: two final files, the second of 0.2 of the
\* threshold.
C22_Witness ==
    \E w \in Created :
        /\ ChunksDone(w, 3)
        /\ hist[w].last = "close"
        /\ FinalName(dumper[w], 1) \in DOMAIN files
        /\ Len(files[FinalName(dumper[w], 1)]) = MAX_FILE_SIZE \div 5

\* n rounded up to a whole number of buffers.
RoundUp(n) == ((n + BUFFER_SIZE - 1) \div BUFFER_SIZE) * BUFFER_SIZE

\* C23: File size bound.  With I/O failures and ForceClose racing WriteData,
\* whatever the sizes of the calls: no file in the directory, temp or final,
\* holds more than MAX_FILE_SIZE bytes, and mCurrentFileSize of a writer is
\* never above MAX_FILE_SIZE rounded up to a whole number of buffers.
C23_FileSizeBound ==
    /\ \A n \in DOMAIN files : Len(files[n]) <= MAX_FILE_SIZE
    /\ \A w \in Created : dumper[w].mCurrentFileSize <= RoundUp(MAX_FILE_SIZE)

\* One WriteData call of more than MAX_FILE_SIZE bytes has returned: the first
\* file is final and holds exactly MAX_FILE_SIZE bytes, the rest is in the next.
C23_Witness ==
    \E w \in Created :
        /\ hist[w].last = "returned"
        /\ hist[w].ret > MAX_FILE_SIZE
        /\ FinalName(dumper[w], 0) \in DOMAIN files
        /\ Len(files[FinalName(dumper[w], 0)]) = MAX_FILE_SIZE
        /\ dumper[w].mFile.open
        /\ dumper[w].mCurrentFileSize + dumper[w].mBufferOffset = hist[w].ret - MAX_FILE_SIZE

\* The names, temp and final, under which the file a writer opened last is in
\* the directory.
LastFileOf(w) ==
    {n \in {TmpName(dumper[w], dumper[w].mFileIndex - 1),
            FinalName(dumper[w], dumper[w].mFileIndex - 1)} : n \in DOMAIN files}

\* C24 as stated: mCurrentFileSize is the number of bytes that were written to
\* the file the writer opened last (its current file); bytes in the buffer and
\* bytes of a failed write are not in it.
C24_Original ==
    \A w \in Created :
        \A n \in LastFileOf(w) : dumper[w].mCurrentFileSize = Len(files[n])

\* The temp paths a writer has opened with success.
OpenedOk(w) == {n \in ghost.opened \ ghost.openFailed : IsOf(dumper[w], n)}

\* C25: File index.  With I/O failures and ForceClose racing WriteData: the
\* files a writer has opened with success carry the indices 0, 1, .. without a
\* gap, mFileIndex and mFileCount both equal their number, an open that failed
\* was made with the index that is still the current one, and the files of the
\* writer in the log have strictly increasing indices.
C25_FileIndex ==
    \A w \in Created :
        LET d == dumper[w]
            ok == OpenedOk(w)
        IN  /\ d.mFileCount = Cardinality(ok)
            /\ d.mFileIndex = Cardinality(ok)
            /\ {n[5] : n \in ok} = 0..(Cardinality(ok) - 1)
            /\ \A n \in ghost.openFailed : IsOf(d, n) => n[5] = d.mFileIndex
            /\ \A i, j \in 1..Len(logcat) :
                   (i < j /\ IsOf(d, logcat[i]) /\ IsOf(d, logcat[j])) => logcat[i][5] < logcat[j][5]

\* A writer has opened file 0, filled it and reported it, and the open of the
\* next file at the rotation has failed.
C25_Witness ==
    \E w \in Created :
        /\ dumper[w].mFileIndex = 1
        /\ dumper[w].mFileCount = 1
        /\ TmpName(dumper[w], 1) \in ghost.openFailed
        /\ FinalName(dumper[w], 0) \in Range(logcat)

\* C26: Forced flush.  With I/O failures and ForceClose racing WriteData:
\* after a WriteData call that returned a count mBytesSinceFlush is below
\* FLUSH_THRESHOLD; at no point, inside a call or between calls, has it been
\* FLUSH_THRESHOLD + BUFFER_SIZE or more; and while ForceClose has not run on
\* the writer it is the number of bytes of the current file past the last
\* multiple of FLUSH_THRESHOLD, so it is 0 at each forced flush and in each new
\* file.
C26_ForcedFlush ==
    /\ ghost.sinceFlush < FLUSH_THRESHOLD + BUFFER_SIZE
    /\ \A w \in Created :
           /\ dumper[w].mBytesSinceFlush <= ghost.sinceFlush
           /\ (hist[w].last = "returned" /\ hist[w].ret >= 0) =>
                  dumper[w].mBytesSinceFlush < FLUSH_THRESHOLD
           /\ ~hist[w].closed =>
                  dumper[w].mBytesSinceFlush = dumper[w].mCurrentFileSize % FLUSH_THRESHOLD

\* A WriteData call has brought the counter to FLUSH_THRESHOLD, forced the
\* flush and returned.
C26_Witness ==
    \E w \in Created :
        /\ hist[w].last = "returned"
        /\ hist[w].ret = FLUSH_THRESHOLD
        /\ ghost.sinceFlush = FLUSH_THRESHOLD
        /\ dumper[w].mCurrentFileSize = FLUSH_THRESHOLD
        /\ dumper[w].mBytesSinceFlush = 0

\* C27: Buffer discipline.  With I/O failures and ForceClose racing WriteData:
\* mBufferOffset is never above BUFFER_SIZE, it is below BUFFER_SIZE after a
\* WriteData call that returned a count, and OpenNewFile has never reset it
\* while bytes were in the buffer.
C27_BufferDiscipline ==
    /\ ~ghost.discarded
    /\ \A w \in Created :
           /\ dumper[w].mBufferOffset <= BUFFER_SIZE
           /\ (hist[w].last = "returned" /\ hist[w].ret >= 0) =>
                  dumper[w].mBufferOffset < BUFFER_SIZE

\* A WriteData call has filled the first file, rotated and returned with a
\* byte in the buffer.
C27_Witness ==
    \E w \in Created :
        /\ hist[w].last = "returned"
        /\ hist[w].ret > MAX_FILE_SIZE
        /\ dumper[w].mFileIndex = 2
        /\ dumper[w].mBufferOffset > 0
        /\ dumper[w].mCurrentFileSize = 0

\* The bytes in the files of a writer that are closed: its final files.
ClosedBytes(w) == SizeOfFinals(dumper[w], dumper[w].mFileIndex)

\* C28 as stated: total_bytes_written is the sum of the sizes of the closed
\* files plus bytes_in_current_file.
C28_Original ==
    \A w \in Created :
        dumper[w].mTotalBytesWritten = ClosedBytes(w) + dumper[w].mCurrentFileSize

\* C28, amended: Byte accounting.  With no I/O failure and calls one after the
\* other, between calls: mTotalBytesWritten plus the bytes in the buffer is the
\* sum of the sizes of the WriteData calls that returned a count; while a file
\* is open mCurrentFileSize is its length and mTotalBytesWritten is the bytes
\* of the closed files plus mCurrentFileSize; once the writer has no open file
\* mTotalBytesWritten is the bytes of the closed files (mCurrentFileSize keeps
\* the size of the file closed last).
C28_ByteAccounting ==
    \A w \in Created :
        LET d == dumper[w]
        IN  /\ d.mTotalBytesWritten + d.mBufferOffset = Len(hist[w].sent)
            /\ d.mFile.open =>
                   /\ d.mCurrentFileSize = Len(files[d.mFile.path])
                   /\ d.mTotalBytesWritten = ClosedBytes(w) + d.mCurrentFileSize
            /\ ~d.mFile.open =>
                   /\ d.mTotalBytesWritten = ClosedBytes(w)
                   /\ \A n \in LastFileOf(w) : d.mCurrentFileSize = Len(files[n])

\* ForceClose has closed the second file of a writer: the counter of the
\* current file still holds the size of that file, which is among the closed.
C28_Witness ==
    \E w \in Created :
        /\ hist[w].last = "close"
        /\ dumper[w].mFileIndex = 2
        /\ dumper[w].mCurrentFileSize > 0
        /\ dumper[w].mTotalBytesWritten = ClosedBytes(w)
        /\ dumper[w].mTotalBytesWritten = Len(hist[w].sent)

====
